---- MODULE Spec2Model ----
(***************************************************************************)
(* Model of src/encode_dcc_trim_adapter.py: the adapter-trimming wrapper.  *)
(* A Python str is a sequence of tokens (a token stands for one or more    *)
(* characters): '' is << >>, a path is <<dir, stem, ext>>.  A Python list   *)
(* is a sequence.  The orchestrator (main) is one process, the workers of  *)
(* multiprocessing.Pool are the others.                                    *)
(***************************************************************************)
EXTENDS Integers, Sequences, FiniteSets, TLC

VARIABLES argv, args, pc, num_process, tasks, ret_vals, i, j,
          trimmed_fastqs, shell, out_dir_files, tsv, tsv_writes

vars == <<argv, args, pc, num_process, tasks, ret_vals, i, j,
          trimmed_fastqs, shell, out_dir_files, tsv, tsv_writes>>

\* ---------------------------------------------------------------- bounds
MaxGroups == 2
MaxNth == 2

\* ------------------------------------------------------- program constants
DefaultMinTrimLen == 5
DefaultErrRate == "0.1"
DefaultOutTsv == <<"out.tsv">>

\* ------------------------------------------------------------- str helpers
Min(a, b) == IF a < b THEN a ELSE b

\* truth value of a str or list: empty is false
Truthy(s) == Len(s) > 0

DirTokens == {"in/", "out/"}
FastqExts == {".fastq.gz", ".fq.gz"}

\* str.endswith('.gz')
EndsWithGz(s) == Len(s) > 0 /\ s[Len(s)] \in (FastqExts \cup {".gz"})

\* os.path.basename: drop the leading directory components
RECURSIVE basename(_)
basename(p) == IF Len(p) > 0 /\ p[1] \in DirTokens THEN basename(Tail(p)) ELSE p

\* strip_ext_fastq: drop a trailing .fastq.gz / .fq.gz
strip_ext_fastq(p) ==
    IF Len(p) > 0 /\ p[Len(p)] \in FastqExts THEN SubSeq(p, 1, Len(p) - 1) ELSE p

\* os.path.join(out_dir, name)
path_join(dir, name) == dir \o name

\* str(x) of a detector result: str(None) is 'None', str of a str is itself
None == [kind |-> "none", val |-> << >>]
PyStr(v) == [kind |-> "str", val |-> v]
PyList(v) == [kind |-> "list", val |-> v]
str(r) == IF r.kind = "none" THEN <<"None">> ELSE r.val

\* ------------------------------------------------------------------ inputs
StemName == << <<"g1_R1", "g1_R2">>, <<"g2_R1", "g2_R2">>,
               <<"g3_R1", "g3_R2">>, <<"g4_R1", "g4_R2">>,
               <<"g5_R1", "g5_R2">> >>

\* the FASTQ named at row g, column s of the input
FileAt(g, s) == <<"in/", StemName[g][s], ".fastq.gz">>

FastqTsvPath == <<"fastqs.tsv">>
AdapterTsvPath == <<"adapters.tsv">>

\* matrices with 1..MaxGroups rows, every row of 1 or 2 cells
Shapes == UNION {[1..n -> 1..2] : n \in 1..MaxGroups}
FastqMatrix(sh) == [g \in 1..Len(sh) |-> [s \in 1..sh[g] |-> FileAt(g, s)]]

\* a FASTQ that is itself the output of an earlier trimming of FileAt(1, 1)
PretrimmedFile == <<"in/", StemName[1][1], ".trim", ".fastq.gz">>

\* single-column matrices of 2..MaxGroups rows whose second row is PretrimmedFile
PretrimmedMatrices ==
    {[g \in 1..n |-> <<IF g = 2 THEN PretrimmedFile ELSE FileAt(g, 1)>>] :
        n \in 2..MaxGroups}

ExplicitAdapter == <<"AGATCGG">>
AdapterCells == {<< >>, ExplicitAdapter}
AdapterTokens == {<<"A">>, <<"A", "G">>}
AdapterMatrices ==
    UNION {{m \in [1..Len(sh) -> UNION {[1..w -> AdapterCells] : w \in 1..2}] :
              \A g \in 1..Len(sh) : Len(m[g]) = sh[g]} : sh \in Shapes}
AdapterLists == UNION {[1..n -> AdapterTokens] : n \in 1..MaxGroups}

\* command lines: positional fastqs (a list of .gz files, or one TSV path whose
\* content is fastqs_tsv), --adapters (absent, one TSV path, or bare tokens)
FastqArgvs ==
    {[fastqs |-> [g \in 1..n |-> FileAt(g, 1)], fastqs_tsv |-> << >>] :
        n \in 1..MaxGroups}
    \cup {[fastqs |-> <<FastqTsvPath>>, fastqs_tsv |-> FastqMatrix(sh)] :
            sh \in Shapes}
    \cup {[fastqs |-> <<FastqTsvPath>>, fastqs_tsv |-> m] : m \in PretrimmedMatrices}
AdapterArgvs ==
    {[adapters |-> << >>, adapters_tsv |-> << >>]}
    \cup {[adapters |-> <<AdapterTsvPath>>, adapters_tsv |-> m] :
            m \in AdapterMatrices}
    \cup {[adapters |-> l, adapters_tsv |-> << >>] : l \in AdapterLists}

Argvs ==
    {[fastqs |-> f.fastqs, fastqs_tsv |-> f.fastqs_tsv,
      adapters |-> a.adapters, adapters_tsv |-> a.adapters_tsv,
      paired_end |-> pe, auto_detect_adapter |-> ad, nth |-> n] :
        f \in FastqArgvs, a \in AdapterArgvs, pe \in BOOLEAN, ad \in BOOLEAN,
        n \in 1..MaxNth}

\* ------------------------------------------------------- parse_arguments
\* read_tsv(path): the rows of the TSV file at path
read_tsv(av, path) ==
    IF path = FastqTsvPath THEN av.fastqs_tsv ELSE av.adapters_tsv

\* os.path.exists(path) at parse time, for a token of --adapters
path_exists(path) == path = AdapterTsvPath

\* lines 52-56
parse_fastqs(av) ==
    IF EndsWithGz(av.fastqs[1])
    THEN [k \in 1..Len(av.fastqs) |-> <<av.fastqs[k]>>]
    ELSE read_tsv(av, av.fastqs[1])

\* lines 58-63: the pair (fastqs, adapters) after the --adapters branch; in
\* the else branch the singleton rows are assigned to args.fastqs and
\* args.adapters stays the list of str given on the command line
parse_adapters(av, fq) ==
    IF Truthy(av.adapters)
    THEN IF path_exists(av.adapters[1])
         THEN [fastqs |-> fq, adapters |-> read_tsv(av, av.adapters[1]),
               rows_are_str |-> FALSE]
         ELSE [fastqs |-> [k \in 1..Len(av.adapters) |-> <<av.adapters[k]>>],
               adapters |-> av.adapters, rows_are_str |-> TRUE]
    ELSE [fastqs |-> fq, adapters |-> << >>, rows_are_str |-> FALSE]

\* variant: the deep copy of the file matrix is not blanked
fill_empty_adapters_NotBlanked(p) ==
    IF ~Truthy(p.adapters) THEN [p EXCEPT !.adapters = p.fastqs] ELSE p

\* lines 65-70
fill_empty_adapters(p) ==
    IF ~Truthy(p.adapters)
    THEN [p EXCEPT !.adapters =
            [g \in 1..Len(p.fastqs) |-> [s \in 1..Len(p.fastqs[g]) |-> << >>]]]
    ELSE p

\* lines 72-85: the message of the ArgumentTypeError raised, or "" if none
RECURSIVE check_rows(_, _, _)
check_rows(p, paired_end, g) ==
    IF g > Len(p.fastqs) THEN ""
    ELSE IF paired_end /\ Len(p.fastqs[g]) # 2
         THEN "Need 2 fastqs per replicate for paired end."
    ELSE IF ~paired_end /\ Len(p.fastqs[g]) # 1
         THEN "Need 1 fastq per replicate for single end."
    ELSE IF Len(p.fastqs[g]) # Len(p.adapters[g])
         THEN "fastqs and adapters dimension mismatch."
    ELSE check_rows(p, paired_end, g + 1)

check_dimension(p, paired_end) ==
    IF Len(p.adapters) # Len(p.fastqs)
    THEN "fastqs and adapters dimension mismatch."
    ELSE check_rows(p, paired_end, 1)

parse_arguments(av) ==
    LET p == fill_empty_adapters(parse_adapters(av, parse_fastqs(av)))
    IN  [fastqs |-> p.fastqs, adapters |-> p.adapters,
         rows_are_str |-> p.rows_are_str,
         paired_end |-> av.paired_end,
         auto_detect_adapter |-> av.auto_detect_adapter,
         nth |-> av.nth, min_trim_len |-> DefaultMinTrimLen,
         err_rate |-> DefaultErrRate, out_dir |-> <<"out/">>,
         out_tsv |-> DefaultOutTsv,
         error |-> check_dimension(p, av.paired_end)]

\* args.adapters[g][s]: indexing a str yields the one-character str
AdapterItem(a, g, s) ==
    IF a.rows_are_str THEN <<a.adapters[g][s]>> ELSE a.adapters[g][s]

NoArgs == [fastqs |-> << >>, adapters |-> << >>, rows_are_str |-> FALSE,
           paired_end |-> FALSE, auto_detect_adapter |-> FALSE, nth |-> 1,
           min_trim_len |-> DefaultMinTrimLen, err_rate |-> DefaultErrRate,
           out_dir |-> <<"out/">>, out_tsv |-> DefaultOutTsv, error |-> ""]

Init ==
    /\ argv \in Argvs
    /\ args = NoArgs
    /\ pc = "parse_arguments"
    /\ num_process = 0
    /\ tasks = << >>
    /\ ret_vals = << >>
    /\ i = 1
    /\ j = 1
    /\ trimmed_fastqs = << >>
    /\ shell = {}
    /\ out_dir_files = {}
    /\ tsv = << >>
    /\ tsv_writes = 0

\* main line 142: parse_arguments() returns args or raises ArgumentTypeError
ParseArguments ==
    /\ pc = "parse_arguments"
    /\ args' = parse_arguments(argv)
    /\ pc' = IF args'.error # "" THEN "argument_error" ELSE "init_pool"
    /\ UNCHANGED <<argv, num_process, tasks, ret_vals, i, j, trimmed_fastqs,
                   shell, out_dir_files, tsv, tsv_writes>>

\* --------------------------------------------------------- task primitives
\* files present before the run: the TSVs and the input FASTQs
ExistingFiles ==
    {FastqTsvPath, AdapterTsvPath}
    \cup {FileAt(g, s) : g \in 1..Len(StemName), s \in 1..2}
    \cup {PretrimmedFile}

\* detect_most_likely_adapter(fastq): an adapter read off the file, or None
DetectedAdapter(fastq) == <<"adapter_of">> \o basename(fastq)
detect_most_likely_adapter(fastq) == {PyStr(DetectedAdapter(fastq)), None}

TrimmedPath(fastq, out_dir) ==
    path_join(out_dir, basename(strip_ext_fastq(fastq))) \o <<".trim", ".fastq.gz">>
LinkedPath(fastq, out_dir) == path_join(out_dir, basename(fastq))

\* variant: the prefix keeps the FASTQ extension (strip_ext_fastq is not applied)
trim_adapter_se_NoStrip(fastq, adapter, min_trim_len, err_rate, out_dir) ==
    IF Truthy(adapter)
    THEN LET trimmed == path_join(out_dir, basename(fastq)) \o <<".trim", ".fastq.gz">>
         IN  [ret |-> trimmed,
              cmd |-> {[prog |-> "cutadapt",
                        m |-> IF min_trim_len > 0 THEN min_trim_len ELSE 0,
                        e |-> err_rate, a |-> <<adapter>>,
                        inputs |-> <<fastq>>, outputs |-> <<trimmed>>]},
              links |-> << >>]
    ELSE LET linked == LinkedPath(fastq, out_dir)
         IN  [ret |-> linked, cmd |-> {}, links |-> <<<<fastq, linked>>>>]

\* lines 91-110.  ret: the value returned; cmd: the shell commands run;
\* links: the hard links made (source, destination)
trim_adapter_se(fastq, adapter, min_trim_len, err_rate, out_dir) ==
    IF Truthy(adapter)
    THEN LET trimmed == TrimmedPath(fastq, out_dir)
         IN  [ret |-> trimmed,
              cmd |-> {[prog |-> "cutadapt",
                        m |-> IF min_trim_len > 0 THEN min_trim_len ELSE 0,
                        e |-> err_rate, a |-> <<adapter>>,
                        inputs |-> <<fastq>>, outputs |-> <<trimmed>>]},
              links |-> << >>]
    ELSE LET linked == LinkedPath(fastq, out_dir)
         IN  [ret |-> linked, cmd |-> {}, links |-> <<<<fastq, linked>>>>]

\* variant: one non-empty adapter is enough to run cutadapt
trim_adapter_pe_Either(fastq1, fastq2, adapter1, adapter2, min_trim_len, err_rate, out_dir) ==
    IF Truthy(adapter1) \/ Truthy(adapter2)
    THEN LET trimmed1 == TrimmedPath(fastq1, out_dir)
             trimmed2 == TrimmedPath(fastq2, out_dir)
         IN  [ret |-> <<trimmed1, trimmed2>>,
              cmd |-> {[prog |-> "cutadapt",
                        m |-> IF min_trim_len > 0 THEN min_trim_len ELSE 0,
                        e |-> err_rate, a |-> <<adapter1, adapter2>>,
                        inputs |-> <<fastq1, fastq2>>,
                        outputs |-> <<trimmed1, trimmed2>>]},
              links |-> << >>]
    ELSE LET linked1 == LinkedPath(fastq1, out_dir)
             linked2 == LinkedPath(fastq2, out_dir)
         IN  [ret |-> <<linked1, linked2>>, cmd |-> {},
              links |-> <<<<fastq1, linked1>>, <<fastq2, linked2>>>>]

\* lines 112-138
trim_adapter_pe(fastq1, fastq2, adapter1, adapter2, min_trim_len, err_rate, out_dir) ==
    IF Truthy(adapter1) /\ Truthy(adapter2)
    THEN LET trimmed1 == TrimmedPath(fastq1, out_dir)
             trimmed2 == TrimmedPath(fastq2, out_dir)
         IN  [ret |-> <<trimmed1, trimmed2>>,
              cmd |-> {[prog |-> "cutadapt",
                        m |-> IF min_trim_len > 0 THEN min_trim_len ELSE 0,
                        e |-> err_rate, a |-> <<adapter1, adapter2>>,
                        inputs |-> <<fastq1, fastq2>>,
                        outputs |-> <<trimmed1, trimmed2>>]},
              links |-> << >>]
    ELSE LET linked1 == LinkedPath(fastq1, out_dir)
             linked2 == LinkedPath(fastq2, out_dir)
         IN  [ret |-> <<linked1, linked2>>, cmd |-> {},
              links |-> <<<<fastq1, linked1>>, <<fastq2, linked2>>>>]

\* what a task computes when it runs to its end
RunTask(t) ==
    IF t.func = "trim_adapter_se"
    THEN trim_adapter_se(t.fastqs[1], t.adapters[1],
                         t.min_trim_len, t.err_rate, t.out_dir)
    ELSE trim_adapter_pe(t.fastqs[1], t.fastqs[2], t.adapters[1], t.adapters[2],
                         t.min_trim_len, t.err_rate, t.out_dir)

\* the hard links l[1..n] can all be made: every source exists and no
\* destination exists yet (os.link raises otherwise)
RECURSIVE LinksOk(_, _, _)
LinksOk(l, n, present) ==
    IF n = 0 THEN TRUE
    ELSE /\ LinksOk(l, n - 1, present)
         /\ l[n][1] \in ExistingFiles
         /\ l[n][2] \notin (present \cup {l[m][2] : m \in 1..(n - 1)})

\* the task can return normally: cutadapt needs its inputs, os.link its
\* source and a free destination
CanSucceed(t, present) ==
    LET r == RunTask(t)
    IN  /\ \A c \in r.cmd : \A k \in 1..Len(c.inputs) : c.inputs[k] \in ExistingFiles
        /\ LinksOk(r.links, Len(r.links), present)

\* files a failing trim task may leave behind: the target of the shell
\* redirection (single-end cutadapt), or the links made before the failing one
FailLeftovers(t, present) ==
    LET r == RunTask(t)
    IN  IF r.cmd # {}
        THEN IF t.func = "trim_adapter_se" THEN {{r.ret}} ELSE {{}}
        ELSE {{r.links[m][2] : m \in 1..n} :
                n \in {n \in 0..(Len(r.links) - 1) : LinksOk(r.links, n, present)}}

\* ------------------------------------------------------ multiprocessing.Pool
NewTask(func, fastqs, adapters, a) ==
    [func |-> func, fastqs |-> fastqs, adapters |-> adapters,
     min_trim_len |-> a.min_trim_len, err_rate |-> a.err_rate,
     out_dir |-> a.out_dir, st |-> "pending", ret |-> None]

Running == {k \in 1..Len(tasks) : tasks[k].st = "running"}

\* variant: the handle of a task that raised never becomes ready
IsReady_OkOnly(t) == t.st = "ok"

\* variant: a handle counts as ready as soon as its task has started
IsReady_Started(t) == t.st # "pending"

\* AsyncResult.ready(): the task has returned or raised
IsReady(t) == t.st \in {"ok", "fail"}

\* variant: get() re-raises the exception of a trim task only
Raises_TrimOnly(t) == t.st = "fail" /\ t.func # "detect_most_likely_adapter"

\* variant: get() swallows the exception of a failed task
Raises_Never(t) == FALSE

\* AsyncResult.get() re-raises the exception of a failed task
Raises(t) == t.st = "fail"

PoolAlive == pc \notin {"parse_arguments", "argument_error", "init_pool",
                        "aborted", "done"}

\* a free worker takes the oldest queued task
WorkerStart ==
    /\ PoolAlive
    /\ Cardinality(Running) < num_process
    /\ \E k \in 1..Len(tasks) :
        /\ tasks[k].st = "pending"
        /\ \A m \in 1..(k - 1) : tasks[m].st # "pending"
        /\ tasks' = [tasks EXCEPT ![k].st = "running"]
    /\ UNCHANGED <<argv, args, pc, num_process, ret_vals, i, j, trimmed_fastqs,
                   shell, out_dir_files, tsv, tsv_writes>>

\* a detection task returns an adapter or None
DetectReturns(k) ==
    /\ PoolAlive
    /\ tasks[k].st = "running"
    /\ tasks[k].func = "detect_most_likely_adapter"
    /\ tasks[k].fastqs[1] \in ExistingFiles
    /\ \E r \in detect_most_likely_adapter(tasks[k].fastqs[1]) :
        tasks' = [tasks EXCEPT ![k].st = "ok", ![k].ret = r]
    /\ UNCHANGED <<argv, args, pc, num_process, ret_vals, i, j, trimmed_fastqs,
                   shell, out_dir_files, tsv, tsv_writes>>

\* a detection task raises (unreadable file, no reads)
DetectFails(k) ==
    /\ PoolAlive
    /\ tasks[k].st = "running"
    /\ tasks[k].func = "detect_most_likely_adapter"
    /\ tasks' = [tasks EXCEPT ![k].st = "fail"]
    /\ UNCHANGED <<argv, args, pc, num_process, ret_vals, i, j, trimmed_fastqs,
                   shell, out_dir_files, tsv, tsv_writes>>

\* a trim task runs cutadapt or makes its hard links, and returns its paths
TrimReturns(k) ==
    /\ PoolAlive
    /\ tasks[k].st = "running"
    /\ tasks[k].func # "detect_most_likely_adapter"
    /\ CanSucceed(tasks[k], out_dir_files)
    /\ LET r == RunTask(tasks[k])
       IN  /\ tasks' = [tasks EXCEPT ![k].st = "ok",
                                     ![k].ret = IF tasks[k].func = "trim_adapter_se"
                                                THEN PyStr(r.ret) ELSE PyList(r.ret)]
           /\ shell' = shell \cup r.cmd
           /\ out_dir_files' = out_dir_files
                \cup (IF r.cmd # {}
                      THEN {c.outputs[m] : c \in r.cmd, m \in 1..Len(tasks[k].fastqs)}
                      ELSE {r.links[m][2] : m \in 1..Len(r.links)})
    /\ UNCHANGED <<argv, args, pc, num_process, ret_vals, i, j, trimmed_fastqs,
                   tsv, tsv_writes>>

\* a trim task raises: cutadapt exits non-zero or os.link fails
TrimFails(k) ==
    /\ PoolAlive
    /\ tasks[k].st = "running"
    /\ tasks[k].func # "detect_most_likely_adapter"
    /\ \E left \in FailLeftovers(tasks[k], out_dir_files) :
        /\ tasks' = [tasks EXCEPT ![k].st = "fail"]
        /\ shell' = shell \cup RunTask(tasks[k]).cmd
        /\ out_dir_files' = out_dir_files \cup left
    /\ UNCHANGED <<argv, args, pc, num_process, ret_vals, i, j, trimmed_fastqs,
                   tsv, tsv_writes>>

\* ------------------------------------------------------------------- main
\* variant: the pool is sized by the slot count alone, --nth is ignored
NumProcess_NoNth(a) ==
    IF a.paired_end THEN 2 * Len(a.fastqs) ELSE Len(a.fastqs)

\* lines 150-153
NumProcess(a) ==
    IF a.paired_end THEN Min(2 * Len(a.fastqs), a.nth)
    ELSE Min(Len(a.fastqs), a.nth)

\* lines 146-155: mkdir_p, num_process, Pool(num_process)
InitPool ==
    /\ pc = "init_pool"
    /\ num_process' = NumProcess(args)
    /\ pc' = IF num_process' < 1 THEN "aborted" ELSE "detect_submit"
    /\ i' = 1
    /\ ret_vals' = << >>
    /\ UNCHANGED <<argv, args, tasks, j, trimmed_fastqs, shell, out_dir_files,
                   tsv, tsv_writes>>

\* lines 166-168 and 175-176: group g gets detection tasks
DetectWanted(a, g) ==
    IF a.paired_end
    THEN a.auto_detect_adapter
         /\ ~(Truthy(AdapterItem(a, g, 1)) /\ Truthy(AdapterItem(a, g, 2)))
    ELSE a.auto_detect_adapter /\ ~Truthy(AdapterItem(a, g, 1))

\* lines 169-173 and 177-179: the detection tasks submitted for group g
DetectTasks(a, g) ==
    [s \in 1..(IF a.paired_end THEN 2 ELSE 1) |->
        NewTask("detect_most_likely_adapter", <<a.fastqs[g][s]>>, << >>, a)]

\* lines 160-179, one iteration of the loop over the groups
DetectSubmit ==
    /\ pc = "detect_submit"
    /\ IF DetectWanted(args, i)
       THEN LET new == DetectTasks(args, i)
            IN  /\ tasks' = tasks \o new
                /\ ret_vals' = Append(ret_vals,
                                  [s \in 1..Len(new) |-> Len(tasks) + s])
       ELSE UNCHANGED <<tasks, ret_vals>>
    /\ IF i < Len(args.fastqs)
       THEN i' = i + 1 /\ UNCHANGED <<pc, j>>
       ELSE /\ i' = 1
            /\ j' = 1
            /\ pc' = IF Len(ret_vals') = 0 THEN "trim_submit" ELSE "detect_collect"
    /\ UNCHANGED <<argv, args, num_process, trimmed_fastqs, shell,
                   out_dir_files, tsv, tsv_writes>>

\* variant: the detected adapter is assigned into the file matrix
write_back_IntoFastqs(a, r, c, value) == [a EXCEPT !.fastqs[r][c] = value]

\* line 184: the adapter matrix after args.adapters[r][c] = value, where r and
\* c are the positions of the handle in ret_vals
write_back(a, r, c, value) == [a EXCEPT !.adapters[r][c] = value]

\* lines 182-186, one ret_val.get(BIG_INT): blocks until the task is ready
\* (the timeout BIG_INT is taken as never expiring), raises if the task failed
\* or if the row is a str (item assignment), else writes the stringified
\* result back
DetectCollect ==
    /\ pc = "detect_collect"
    /\ LET t == tasks[ret_vals[i][j]]
       IN  /\ IsReady(t)
           /\ IF Raises(t) \/ args.rows_are_str
              THEN pc' = "aborted" /\ UNCHANGED <<args, i, j, ret_vals>>
              ELSE /\ args' = write_back(args, i, j, str(t.ret))
                   /\ IF j < Len(ret_vals[i])
                      THEN j' = j + 1 /\ UNCHANGED <<pc, i, ret_vals>>
                      ELSE IF i < Len(ret_vals)
                      THEN i' = i + 1 /\ j' = 1 /\ UNCHANGED <<pc, ret_vals>>
                      ELSE /\ pc' = "trim_submit"
                           /\ i' = 1
                           /\ j' = 1
                           /\ ret_vals' = << >>
    /\ UNCHANGED <<argv, num_process, tasks, trimmed_fastqs, shell,
                   out_dir_files, tsv, tsv_writes>>

\* lines 195-210: the trim task of group g
TrimTask(a, g) ==
    IF a.paired_end
    THEN NewTask("trim_adapter_pe", <<a.fastqs[g][1], a.fastqs[g][2]>>,
                 <<AdapterItem(a, g, 1), AdapterItem(a, g, 2)>>, a)
    ELSE NewTask("trim_adapter_se", <<a.fastqs[g][1]>>,
                 <<AdapterItem(a, g, 1)>>, a)

\* lines 191-211, one iteration of the loop over the groups
TrimSubmit ==
    /\ pc = "trim_submit"
    /\ tasks' = Append(tasks, TrimTask(args, i))
    /\ ret_vals' = Append(ret_vals, Len(tasks) + 1)
    /\ IF i < Len(args.fastqs)
       THEN i' = i + 1 /\ UNCHANGED <<pc, trimmed_fastqs>>
       ELSE i' = 1 /\ pc' = "trim_collect" /\ trimmed_fastqs' = << >>
    /\ UNCHANGED <<argv, args, num_process, j, shell, out_dir_files,
                   tsv, tsv_writes>>

\* variant: the single-end path is appended without being wrapped in a list
ManifestRow_Unwrapped(paired_end, ret) == ret

\* lines 216-219: the manifest row made of the value a trim handle returned
ManifestRow(paired_end, ret) == IF paired_end THEN ret ELSE <<ret>>

\* variant: the handles are collected last submitted first
TrimHandle_Reversed(rv, r) == rv[Len(rv) + 1 - r]

\* line 215: the handle the r-th iteration of the collecting loop waits on
TrimHandle(rv, r) == rv[r]

\* lines 215-219, one ret_val.get()
TrimCollect ==
    /\ pc = "trim_collect"
    /\ LET t == tasks[TrimHandle(ret_vals, i)]
       IN  /\ IsReady(t)
           /\ IF Raises(t)
              THEN pc' = "aborted" /\ UNCHANGED <<trimmed_fastqs, i>>
              ELSE /\ trimmed_fastqs' =
                        Append(trimmed_fastqs, ManifestRow(args.paired_end, t.ret.val))
                   /\ IF i < Len(ret_vals)
                      THEN i' = i + 1 /\ UNCHANGED pc
                      ELSE i' = 1 /\ pc' = "pool_close"
    /\ UNCHANGED <<argv, args, num_process, tasks, ret_vals, j, shell,
                   out_dir_files, tsv, tsv_writes>>

\* lines 222-223: close() and join() return once the workers are idle
PoolClose ==
    /\ pc = "pool_close"
    /\ \A k \in 1..Len(tasks) : IsReady(tasks[k])
    /\ pc' = "write_tsv"
    /\ UNCHANGED <<argv, args, num_process, tasks, ret_vals, i, j,
                   trimmed_fastqs, shell, out_dir_files, tsv, tsv_writes>>

\* lines 226-230: write_tsv(out_dir/out_tsv, trimmed_fastqs)
WriteTsv ==
    /\ pc = "write_tsv"
    /\ tsv' = trimmed_fastqs
    /\ tsv_writes' = tsv_writes + 1
    /\ pc' = "done"
    /\ UNCHANGED <<argv, args, num_process, tasks, ret_vals, i, j,
                   trimmed_fastqs, shell, out_dir_files>>

Next ==
    \/ ParseArguments
    \/ InitPool
    \/ DetectSubmit
    \/ DetectCollect
    \/ TrimSubmit
    \/ TrimCollect
    \/ PoolClose
    \/ WriteTsv
    \/ WorkerStart
    \/ \E k \in 1..Len(tasks) : DetectReturns(k)
    \/ \E k \in 1..Len(tasks) : DetectFails(k)
    \/ \E k \in 1..Len(tasks) : TrimReturns(k)
    \/ \E k \in 1..Len(tasks) : TrimFails(k)

Spec == Init /\ [][Next]_vars

\* ------------------------------------------------ vocabulary of the claims
IsDetect(t) == t.func = "detect_most_likely_adapter"
DetectIdx == {k \in 1..Len(tasks) : IsDetect(tasks[k])}
IsTrim(t) == ~IsDetect(t)

\* the trim tasks in the order of their submission: the g-th is group g's
TrimSeq == SelectSeq(tasks, IsTrim)

\* the file matrix as parsed from the positional arguments
FileMatrix == parse_fastqs(argv)
Arity == IF argv.paired_end THEN 2 ELSE 1

\* the adapter matrix of the input: absent adapters are all empty, a TSV
\* gives its rows, bare tokens are singleton rows
InputAdapters ==
    IF ~Truthy(argv.adapters)
    THEN [g \in 1..Len(FileMatrix) |-> [s \in 1..Len(FileMatrix[g]) |-> << >>]]
    ELSE IF path_exists(argv.adapters[1]) THEN argv.adapters_tsv
    ELSE [g \in 1..Len(argv.adapters) |-> <<argv.adapters[g]>>]

EndsWithTrim(p) ==
    Len(p) > 1 /\ p[Len(p) - 1] = ".trim" /\ p[Len(p)] = ".fastq.gz"

\* C1: when the batch completes, row g of the manifest holds the output paths
\* of input group g, read 1 before read 2, whatever the order in which the
\* trim tasks completed.
C1_ManifestInGroupOrder ==
    pc = "done" =>
        /\ Len(tsv) = Len(FileMatrix)
        /\ \A g \in 1..Len(tsv) :
            /\ Len(tsv[g]) = Len(FileMatrix[g])
            /\ \A s \in 1..Len(tsv[g]) :
                tsv[g][s] \in {TrimmedPath(FileMatrix[g][s], args.out_dir),
                               LinkedPath(FileMatrix[g][s], args.out_dir)}

C1_Witness ==
    /\ pc = "done"
    /\ num_process >= 2
    /\ Len(tsv) >= 2
    /\ argv.paired_end
    /\ EndsWithTrim(tsv[1][1])
    /\ ~EndsWithTrim(tsv[2][2])

\* C2: the adapter handed to group g's trim task for slot s is the input
\* adapter of that slot whenever the input adapter is a non-empty string.
C2_ExplicitAdapterUnmodified ==
    \A g \in 1..Len(TrimSeq) :
        \A s \in 1..Len(TrimSeq[g].adapters) :
            (g \in DOMAIN InputAdapters /\ s \in DOMAIN InputAdapters[g]
             /\ Truthy(InputAdapters[g][s]))
                => TrimSeq[g].adapters[s] = InputAdapters[g][s]

\* C3: where a detection task ran on the file of group g, slot s, the adapter
\* handed to group g's trim task for slot s is the stringified result of that
\* detection task.
C3_AdapterFromOwnFile ==
    \A g \in 1..Len(TrimSeq) :
        \A s \in 1..Len(TrimSeq[g].fastqs) :
            \A m \in DetectIdx :
                tasks[m].fastqs[1] = TrimSeq[g].fastqs[s]
                    => TrimSeq[g].adapters[s] = str(tasks[m].ret)

\* C4: a detection task is submitted for a slot exactly when the slot's input
\* adapter is empty and auto-detect is enabled.
C4_DetectIffEmptyAndAuto ==
    /\ \A m \in DetectIdx :
        \E g \in 1..Len(FileMatrix) : \E s \in 1..Len(FileMatrix[g]) :
            /\ FileMatrix[g][s] = tasks[m].fastqs[1]
            /\ argv.auto_detect_adapter
            /\ ~Truthy(InputAdapters[g][s])
    /\ pc \in {"detect_collect", "trim_submit", "trim_collect", "pool_close",
               "write_tsv", "done"} =>
        \A g \in 1..Len(FileMatrix) : \A s \in 1..Len(FileMatrix[g]) :
            (g \in DOMAIN InputAdapters /\ s \in DOMAIN InputAdapters[g]
             /\ argv.auto_detect_adapter /\ ~Truthy(InputAdapters[g][s]))
                => \E m \in DetectIdx : tasks[m].fastqs[1] = FileMatrix[g][s]

\* C5: phase barrier: whenever a trim task has been submitted, no detection
\* task is pending or running.
C5_PhaseBarrier ==
    (\E k \in 1..Len(tasks) : IsTrim(tasks[k])) =>
        \A m \in DetectIdx : tasks[m].st \notin {"pending", "running"}

C5_Witness ==
    /\ Cardinality(DetectIdx) >= 2
    /\ Len(TrimSeq) >= 1
    /\ \E k \in 1..Len(tasks) : IsTrim(tasks[k]) /\ tasks[k].st = "running"

\* C6: in both phases at most min(N, M) tasks are active at once, N the
\* requested threads and M the groups of the batch times its arity.
C6_ConcurrencyBound ==
    Cardinality(Running) <= Min(argv.nth, Len(args.fastqs) * Arity)

C6_Witness ==
    /\ Cardinality(Running) = Min(argv.nth, Len(args.fastqs) * Arity)
    /\ Cardinality(Running) >= 2
    /\ \E k \in 1..Len(tasks) : IsDetect(tasks[k]) /\ tasks[k].st = "pending"

\* C7: the manifest is written at most once, only when every detection and
\* trim task of the batch has returned successfully, and never once a task
\* has failed.
C7_AllOrNothingManifest ==
    /\ tsv_writes <= 1
    /\ tsv_writes > 0 =>
        /\ \A k \in 1..Len(tasks) : tasks[k].st = "ok"
        /\ Len(TrimSeq) = Len(args.fastqs)
    /\ (\E k \in 1..Len(tasks) : tasks[k].st = "fail") => tsv_writes = 0

C7_Witness ==
    /\ tsv_writes = 1
    /\ Cardinality(DetectIdx) >= 2
    /\ Len(TrimSeq) >= 2

\* C8: when the batch completes, the manifest has one row per input group and
\* every row has as many columns as the batch arity.
C8_ManifestShape ==
    pc = "done" =>
        /\ Len(tsv) = Len(FileMatrix)
        /\ \A g \in 1..Len(tsv) : Len(tsv[g]) = Arity

C8_Witness ==
    /\ pc = "done"
    /\ \E g \in 1..Len(tsv) : EndsWithTrim(tsv[g][1])
    /\ \E g \in 1..Len(tsv) : ~EndsWithTrim(tsv[g][1])

\* the input violates one of the three shape conditions
ShapeViolated ==
    \/ Len(FileMatrix) # Len(InputAdapters)
    \/ \E g \in 1..Len(FileMatrix) : Len(FileMatrix[g]) # Arity
    \/ \E g \in 1..Min(Len(FileMatrix), Len(InputAdapters)) :
        Len(FileMatrix[g]) # Len(InputAdapters[g])

\* C9: on an input that violates a shape condition the pool is never created
\* and no task is ever submitted: the run ends in the shape error.
C9_ShapeErrorBeforeWork ==
    ShapeViolated =>
        /\ pc \in {"parse_arguments", "argument_error", "init_pool"}
        /\ num_process = 0
        /\ tasks = << >>

\* C10: the trimming command is never run with the not-found sentinel as an
\* adapter: a slot whose detection returned the sentinel is passed through.
C10_SentinelPassThrough ==
    /\ \A c \in shell : \A k \in 1..Len(c.a) : c.a[k] # str(None)
    /\ \A g \in 1..Len(TrimSeq) :
        (TrimSeq[g].st = "ok"
         /\ \E s \in 1..Len(TrimSeq[g].adapters) : TrimSeq[g].adapters[s] = str(None))
            => TrimSeq[g].ret.val =
                 IF TrimSeq[g].func = "trim_adapter_se"
                 THEN LinkedPath(TrimSeq[g].fastqs[1], TrimSeq[g].out_dir)
                 ELSE <<LinkedPath(TrimSeq[g].fastqs[1], TrimSeq[g].out_dir),
                        LinkedPath(TrimSeq[g].fastqs[2], TrimSeq[g].out_dir)>>

\* the name of an input FASTQ without its directory, and without its extension
NameOf(f) == SubSeq(f, 2, Len(f))
StemOf(f) == SubSeq(f, 2, Len(f) - 1)

\* the trim tasks of one kind that have returned
Returned(func) == {k \in 1..Len(tasks) : tasks[k].func = func /\ tasks[k].st = "ok"}

\* C11: a single-end trim task with a non-empty adapter runs the trimming
\* command on its file and returns {out_dir}/{name without FASTQ extension}
\* .trim.fastq.gz; with an empty adapter it runs no command, makes a hard link
\* and returns {out_dir}/{original basename}.
C11_SingleEndResult ==
    \A k \in Returned("trim_adapter_se") :
        LET t == tasks[k]
        IN  IF t.adapters[1] # << >>
            THEN /\ t.ret.val = t.out_dir \o StemOf(t.fastqs[1]) \o <<".trim", ".fastq.gz">>
                 /\ \E c \in shell : /\ c.prog = "cutadapt"
                                     /\ c.inputs = t.fastqs
                                     /\ c.a = t.adapters
                                     /\ c.outputs = <<t.ret.val>>
            ELSE /\ t.ret.val = t.out_dir \o NameOf(t.fastqs[1])
                 /\ t.ret.val \in out_dir_files
                 /\ ~\E c \in shell : c.inputs = t.fastqs

C11_Witness ==
    /\ \E k \in Returned("trim_adapter_se") : tasks[k].adapters[1] # << >>
    /\ \E k \in Returned("trim_adapter_se") : tasks[k].adapters[1] = << >>

\* C12: a paired-end trim task runs the trimming command, and returns two
\* paths ending in .trim.fastq.gz, exactly when both adapters are non-empty;
\* otherwise both mates are hard links with their original basenames and no
\* command runs.
C12_PairedEndResult ==
    \A k \in Returned("trim_adapter_pe") :
        LET t == tasks[k]
            both == t.adapters[1] # << >> /\ t.adapters[2] # << >>
            ran == \E c \in shell : c.prog = "cutadapt" /\ c.inputs = t.fastqs
        IN  /\ ran <=> both
            /\ (EndsWithTrim(t.ret.val[1]) /\ EndsWithTrim(t.ret.val[2])) <=> both
            /\ both => \A s \in 1..2 :
                 t.ret.val[s] = t.out_dir \o StemOf(t.fastqs[s]) \o <<".trim", ".fastq.gz">>
            /\ ~both => \A s \in 1..2 :
                 /\ t.ret.val[s] = t.out_dir \o NameOf(t.fastqs[s])
                 /\ t.ret.val[s] \in out_dir_files

C12_Witness ==
    /\ \E k \in Returned("trim_adapter_pe") :
        tasks[k].adapters[1] # << >> /\ tasks[k].adapters[2] # << >>
    /\ \E k \in Returned("trim_adapter_pe") :
        tasks[k].adapters[1] # << >> /\ tasks[k].adapters[2] = << >>

\* --adapters is a list of bare tokens, not the path of an existing TSV
InlineAdapters == Truthy(argv.adapters) /\ ~path_exists(argv.adapters[1])

\* C13: with bare adapter tokens each token is a singleton row of the adapter
\* matrix and the file matrix stays as parsed from the file arguments; a
\* single-end batch of k files with k tokens passes the shape validation and
\* file i is trimmed with adapter i.
C13_InlineAdapterRows ==
    (InlineAdapters /\ pc # "parse_arguments") =>
        /\ args.fastqs = FileMatrix
        /\ ~args.rows_are_str
        /\ args.adapters = [g \in 1..Len(argv.adapters) |-> <<argv.adapters[g]>>]
        /\ (~argv.paired_end /\ Len(argv.adapters) = Len(FileMatrix)
            /\ \A g \in 1..Len(FileMatrix) : Len(FileMatrix[g]) = 1)
              => /\ args.error = ""
                 /\ \A g \in 1..Len(TrimSeq) :
                      /\ TrimSeq[g].fastqs = FileMatrix[g]
                      /\ TrimSeq[g].adapters = <<argv.adapters[g]>>

\* C14: without --adapters every adapter slot defaults to empty, in the shape
\* of the file matrix; with auto-detect off as well no detection task is ever
\* submitted, no trimming command runs and every manifest entry is the
\* pass-through path {out_dir}/{original basename} of its input file.
C14_NoAdaptersPassThrough ==
    (~Truthy(argv.adapters) /\ pc # "parse_arguments") =>
        /\ (pc \in {"argument_error", "init_pool", "detect_submit"}
            \/ ~argv.auto_detect_adapter) =>
              /\ Len(args.adapters) = Len(FileMatrix)
              /\ \A g \in 1..Len(FileMatrix) :
                   /\ Len(args.adapters[g]) = Len(FileMatrix[g])
                   /\ \A c \in 1..Len(FileMatrix[g]) : args.adapters[g][c] = << >>
        /\ ~argv.auto_detect_adapter =>
              /\ DetectIdx = {}
              /\ shell = {}
              /\ pc = "done" =>
                   \A g \in 1..Len(FileMatrix) : \A c \in 1..Len(FileMatrix[g]) :
                       tsv[g][c] = args.out_dir \o NameOf(FileMatrix[g][c])

C14_Witness ==
    /\ ~Truthy(argv.adapters)
    /\ ~argv.auto_detect_adapter
    /\ pc = "done"
    /\ Len(tsv) >= 2
    /\ out_dir_files = {tsv[g][1] : g \in 1..Len(tsv)}

\* the (task, slot) pairs of the trim phase, the file of each and the path
\* its task writes for it
TrimSlots == {<<k, c>> \in (1..Len(tasks)) \X (1..2) :
                IsTrim(tasks[k]) /\ c <= Len(tasks[k].fastqs)}
SlotFile(x) == tasks[x[1]].fastqs[x[2]]
SlotOut(x) ==
    IF tasks[x[1]].func = "trim_adapter_se" THEN RunTask(tasks[x[1]]).ret
    ELSE RunTask(tasks[x[1]]).ret[x[2]]

\* C15: when the files of the batch have pairwise distinct basenames, no two
\* output paths of the trim phase are equal.
C15_NoOutputCollision ==
    (\A x, y \in TrimSlots : x # y => basename(SlotFile(x)) # basename(SlotFile(y)))
        => \A x, y \in TrimSlots : x # y => SlotOut(x) # SlotOut(y)

\* the handle main is waiting on in a collecting loop
WaitedTask ==
    IF pc = "detect_collect" THEN tasks[ret_vals[i][j]]
    ELSE tasks[TrimHandle(ret_vals, i)]

\* C16: fail-fast: once a task has failed, main is not held back by a task
\* that is still pending or running, it can abort at once.
C16_FailFast ==
    (pc \in {"detect_collect", "trim_collect"}
     /\ \E k \in 1..Len(tasks) : tasks[k].st = "fail")
        => IsReady(WaitedTask)

\* the groups a shape error message names: the three literals of lines 74-85
\* are not formatted with the loop index i
GroupsNamedBy(msg) == {}

\* the first group the loop of lines 76-85 rejects, 0 if it rejects none
RECURSIVE FirstBadGroup(_, _, _)
FirstBadGroup(p, paired_end, g) ==
    IF g > Len(p.fastqs) THEN 0
    ELSE IF \/ (paired_end /\ Len(p.fastqs[g]) # 2)
            \/ (~paired_end /\ Len(p.fastqs[g]) # 1)
            \/ Len(p.fastqs[g]) # Len(p.adapters[g])
         THEN g
    ELSE FirstBadGroup(p, paired_end, g + 1)

\* C17: a shape error raised for group g identifies group g.
C17_ShapeErrorNamesGroup ==
    (pc = "argument_error" /\ Len(args.adapters) = Len(args.fastqs))
        => FirstBadGroup(args, args.paired_end, 1) \in GroupsNamedBy(args.error)

\* the batches of the termination check: every command line without
\* --adapters, and every single-end command line
FairArgvs == {a \in Argvs : ~Truthy(a.adapters) \/ ~a.paired_end}
FairInit == Init /\ argv \in FairArgvs

\* main runs on, the pool hands queued tasks to free workers and every started
\* task returns or fails: some enabled step is eventually taken
FairSpec == FairInit /\ [][Next]_vars /\ WF_vars(Next)

\* C18: a batch that passed the validation eventually ends, with the manifest
\* written or with the batch aborted; main does not stay blocked on a handle
\* whose task has returned.
C18_Termination == (pc = "init_pool") ~> (pc \in {"done", "aborted"})

C18_Witness ==
    /\ pc = "aborted"
    /\ Len(TrimSeq) >= 2
    /\ \E g \in 1..Len(TrimSeq) : TrimSeq[g].st = "fail"
    /\ \E g \in 1..Len(TrimSeq) : TrimSeq[g].st = "running"

\* the global parameters of the batch
Params(a) == <<a.paired_end, a.auto_detect_adapter, a.nth, a.min_trim_len,
               a.err_rate, a.out_dir, a.out_tsv>>

\* C19: after the validation no step changes the file matrix or the global
\* parameters, and the adapter values change only in a step of the
\* detection-result write-back.
C19_Frame ==
    [][pc # "parse_arguments" =>
         /\ args'.fastqs = args.fastqs
         /\ Params(args') = Params(args)
         /\ args'.adapters # args.adapters => pc = "detect_collect"]_vars

C19_Witness ==
    /\ pc = "done"
    /\ args.adapters # parse_arguments(argv).adapters
    /\ args.fastqs = parse_arguments(argv).fastqs
    /\ Len(args.fastqs) >= 2

\* C20: once a detection task has failed no trim task is ever submitted, no
\* file or link appears in the output directory and no manifest is written:
\* the batch can only abort from the detection-result collection.
C20_DetectionFailureStopsBatch ==
    (\E m \in DetectIdx : tasks[m].st = "fail") =>
        /\ pc \in {"detect_submit", "detect_collect", "aborted"}
        /\ Len(TrimSeq) = 0
        /\ out_dir_files = {}
        /\ shell = {}
        /\ tsv_writes = 0

C20_Witness ==
    /\ pc = "aborted"
    /\ \E m \in DetectIdx : tasks[m].st = "fail"
    /\ \E m \in DetectIdx : tasks[m].st = "ok"
====
